---- MODULE Spec2Model ----
(***************************************************************************)
(* Model of lib/logger.py of kvm-appvm: the per-component file logger      *)
(* (ensure_log_dir, log, log_command) and the shell function log_action    *)
(* carried in BASH_LOG_FUNCTION.                                           *)
(*                                                                         *)
(* Text is modelled with TLA+ strings and \o.  A log file is the sequence  *)
(* of chunks appended to it, standard error the sequence of chunks written *)
(* to it, one chunk per write system call; the text is their               *)
(* concatenation.  An optional argument is <<>> (Python None / an unset    *)
(* shell parameter) or <<s>>.                                              *)
(***************************************************************************)
EXTENDS Integers, Sequences, FiniteSets, TLC

VARIABLES
    fs,       \* [dir: does LOG_DIR exist, present: existing log files, files: name -> chunks]
    perm,     \* [search, mkdir, open, write]: may /var/log be searched, and the error a mkdir of
              \* LOG_DIR, an open for append and a write meet
    stderr,   \* chunks written to standard error
    clock,    \* the local time a call reads
    last,     \* ghost: the last completed call (arguments, state before it, result) and
              \* the operation and result of the call before it
    calls,    \* number of completed calls
    pc,       \* SpecConc: position of each process inside log()
    req,      \* SpecConc: arguments and formatted entry of each process's call
    dir0      \* ghost: did LOG_DIR exist in the initial state

vars == <<fs, perm, stderr, clock, last, calls, pc, req, dir0>>

----------------------------------------------------------------------------
(* Bounds of the model *)

MaxCalls == 2
NumProcs == 2

----------------------------------------------------------------------------
(* Values *)

None == <<>>
Some(s) == <<s>>

\* Python truthiness of an optional str argument: None and "" are falsy.
Truthy(o) == o # None /\ o[1] # ""

LOG_DIR == "/var/log/kvm-appvm"

LogFileNames == {"appvm.log", "qemu-hook.log", "guest-init.log"}

\* variant: the table lacks the guest-init entry
LOG_FILES_get_short(component) ==
    CASE component = "appvm" -> "appvm.log"
      [] component = "qemu-hook" -> "qemu-hook.log"
      [] OTHER -> "appvm.log"

\* LOG_FILES.get(component, "appvm.log")
LOG_FILES_get(component) ==
    CASE component = "appvm" -> "appvm.log"
      [] component = "qemu-hook" -> "qemu-hook.log"
      [] component = "guest-init" -> "guest-init.log"
      [] OTHER -> "appvm.log"

\* LOG_DIR / name
PathOf(name) == LOG_DIR \o "/" \o name

----------------------------------------------------------------------------
(* Text conversions *)

DigitChars == <<"0", "1", "2", "3", "4", "5", "6", "7", "8", "9">>

Digit(d) == DigitChars[d + 1]

\* zero-padded two-digit field (%m %d %H %M %S)
Pad2(n) == Digit((n \div 10) % 10) \o Digit(n % 10)

\* zero-padded four-digit field (%Y)
Pad4(n) == Pad2(n \div 100) \o Pad2(n % 100)

\* datetime.now().strftime("%Y-%m-%d %H:%M:%S")
strftime(t) ==
    Pad4(t.year) \o "-" \o Pad2(t.month) \o "-" \o Pad2(t.day) \o " "
        \o Pad2(t.hour) \o ":" \o Pad2(t.minute) \o ":" \o Pad2(t.second)

\* date '+%Y-%m-%d %H:%M:%S'
date_fmt(t) ==
    Pad4(t.year) \o "-" \o Pad2(t.month) \o "-" \o Pad2(t.day) \o " "
        \o Pad2(t.hour) \o ":" \o Pad2(t.minute) \o ":" \o Pad2(t.second)

RECURSIVE NatStr(_)
NatStr(n) == IF n < 10 THEN Digit(n) ELSE NatStr(n \div 10) \o Digit(n % 10)

\* str(arg) of one element of a command list: a str is itself, an int its decimal form
str(arg) ==
    IF "s" \in DOMAIN arg THEN arg.s
    ELSE IF arg.n < 0 THEN "-" \o NatStr(-arg.n) ELSE NatStr(arg.n)

RECURSIVE JoinFrom(_, _)
JoinFrom(cmd, i) ==
    IF i > Len(cmd) THEN ""
    ELSE IF i = Len(cmd) THEN str(cmd[i])
    ELSE str(cmd[i]) \o " " \o JoinFrom(cmd, i + 1)

RECURSIVE ConcatFrom(_, _)
ConcatFrom(cmd, i) == IF i > Len(cmd) THEN "" ELSE str(cmd[i]) \o ConcatFrom(cmd, i + 1)

\* variant: "".join(...), no separator
command_str_nosep(cmd) == ConcatFrom(cmd, 1)

\* " ".join(str(arg) for arg in cmd)
command_str(cmd) == JoinFrom(cmd, 1)

\* echo x: the text and a newline in one write
PrintChunk(x) == x \o "\n"

\* print(x, file=sys.stderr): a write of the text and a write of the newline
\* (a line-buffered stream joins the two when the text has no newline; the
\* text on standard error is the same)
PyPrint(x) == <<x, "\n">>

\* the texts of the two warnings
WarnCreate == "Warning: Cannot create " \o LOG_DIR \o ", logging to stderr"
WarnWrite(name) == "Warning: Cannot write to " \o PathOf(name)

----------------------------------------------------------------------------
(* log(): the entry *)

\* variant: the segments are chosen by "is not None" instead of truthiness
log_entry_is_not_none(timestamp, action, command, message) ==
    LET e0 == "[" \o timestamp \o "] [" \o action \o "]"
        e1 == IF command # None THEN e0 \o " command: " \o command[1] ELSE e0
        e2 == IF message # None THEN e1 \o " " \o message[1] ELSE e1
    IN  e2 \o "\n"

\* the f-string built at the top of log()
log_entry(timestamp, action, command, message) ==
    LET e0 == "[" \o timestamp \o "] [" \o action \o "]"
        e1 == IF Truthy(command) THEN e0 \o " command: " \o command[1] ELSE e0
        e2 == IF Truthy(message) THEN e1 \o " " \o message[1] ELSE e1
    IN  e2 \o "\n"

----------------------------------------------------------------------------
(* The filesystem and the three Python functions *)

\* error numbers a mkdir of LOG_DIR or an open of a log file may meet, and the
\* one a write may meet
Faults == {"none", "EACCES", "EROFS"}
WriteFaults == {"none", "ENOSPC"}

\* the OSError subclass Python raises for an error number
ExcOf(errno) ==
    CASE errno = "none" -> "none"
      [] errno = "EACCES" -> "PermissionError"
      [] errno = "EEXIST" -> "FileExistsError"
      [] OTHER -> "OSError"

\* LOG_DIR.exists(): the stat is refused when /var/log may not be searched, and
\* exists() passes that error on
exists(dirNow, p) ==
    IF ~p.search THEN "PermissionError" ELSE IF dirNow THEN "True" ELSE "False"

\* LOG_DIR.mkdir(parents=True, mode=0o755), no exist_ok: the outcome of the system call
mkdir(dirNow, p) ==
    ExcOf(IF ~p.search THEN "EACCES" ELSE IF dirNow THEN "EEXIST" ELSE p.mkdir)

\* open(log_file, "a"): the outcome of the system call
open_append(p) == ExcOf(IF ~p.search THEN "EACCES" ELSE p.open)

\* f.write(log_entry) and the flush when the with block closes the file
write_flush(p) == ExcOf(p.write)

Outcome(f, e, ret, exc) == [fs |-> f, stderr |-> e, ret |-> ret, exc |-> exc]

\* variant: except OSError instead of except PermissionError
ensure_mkdir_broad(f, p, e) ==
    LET r == mkdir(f.dir, p) IN
    IF r = "none" THEN Outcome([f EXCEPT !.dir = TRUE], e, "True", "none")
    ELSE Outcome(f,
                 e \o PyPrint(WarnCreate),
                 "False", "none")

\* ensure_log_dir() from the mkdir call on, entered when exists() answered False
ensure_mkdir(f, p, e) ==
    LET r == mkdir(f.dir, p) IN
    CASE r = "none" -> Outcome([f EXCEPT !.dir = TRUE], e, "True", "none")
      [] r = "PermissionError" ->
            Outcome(f,
                    e \o PyPrint(WarnCreate),
                    "False", "none")
      [] OTHER -> Outcome(f, e, "None", r)

\* variant: no exists() test before the mkdir
ensure_log_dir_nocheck(f, p, e) == ensure_mkdir(f, p, e)

\* ensure_log_dir(); the exists() test stands outside the try
ensure_log_dir(f, p, e) ==
    LET x == exists(f.dir, p) IN
    CASE x = "False" -> ensure_mkdir(f, p, e)
      [] x = "True" -> Outcome(f, e, "True", "none")
      [] OTHER -> Outcome(f, e, "None", x)

\* variant: the file is opened with mode "w"
log_write_truncate(f, p, e, component, entry) ==
    LET name == LOG_FILES_get(component)
        r == open_append(p)
        w == write_flush(p)
        opened == [f EXCEPT !.present = @ \cup {name}, !.files[name] = <<>>] IN
    CASE r = "none" /\ w = "none" ->
            Outcome([opened EXCEPT !.files[name] = <<entry>>], e, "None", "none")
      [] r = "none" /\ w # "none" -> Outcome(opened, e, "None", w)
      [] r = "PermissionError" ->
            Outcome(f,
                    e \o PyPrint(WarnWrite(name)) \o PyPrint(entry),
                    "None", "none")
      [] OTHER -> Outcome(f, e, "None", r)

\* log(), the branch taken when ensure_log_dir() returned True: the open
\* creates the file, the write may still fail, and only PermissionError is caught
log_write(f, p, e, component, entry) ==
    LET name == LOG_FILES_get(component)
        r == open_append(p)
        w == write_flush(p)
        opened == [f EXCEPT !.present = @ \cup {name}] IN
    CASE r = "none" /\ w = "none" ->
            Outcome([opened EXCEPT !.files[name] = Append(@, entry)], e, "None", "none")
      [] r = "none" /\ w # "none" -> Outcome(opened, e, "None", w)
      [] r = "PermissionError" ->
            Outcome(f,
                    e \o PyPrint(WarnWrite(name)) \o PyPrint(entry),
                    "None", "none")
      [] OTHER -> Outcome(f, e, "None", r)

\* log(), the else branch: ensure_log_dir() returned False
log_stderr(f, e, entry) == Outcome(f, e \o PyPrint(entry), "None", "none")

\* log() after the entry is built
log_emit(f, p, e, component, entry) ==
    LET d == ensure_log_dir(f, p, e) IN
    IF d.exc # "none" THEN d
    ELSE IF d.ret = "True" THEN log_write(d.fs, p, d.stderr, component, entry)
    ELSE log_stderr(d.fs, d.stderr, entry)

\* log(component, action, command, message) called at time t
log(f, p, e, t, component, action, command, message) ==
    log_emit(f, p, e, component, log_entry(strftime(t), action, command, message))

\* log_command(component, action, cmd) called at time t
log_command(f, p, e, t, component, action, cmd) ==
    log(f, p, e, t, component, action, Some(command_str(cmd)), None)

----------------------------------------------------------------------------
(* The shell function log_action *)

\* local message="$3": an unset parameter expands to the empty string
ShellParam(o) == IF o = None THEN "" ELSE o[1]

\* case "$component" in ... esac
log_file_case(component) ==
    CASE component = "qemu-hook" -> "qemu-hook.log"
      [] component = "guest-init" -> "guest-init.log"
      [] OTHER -> "appvm.log"

\* mkdir -p "$log_dir" 2>/dev/null || true
mkdir_p(f, p) ==
    IF p.search /\ ~f.dir /\ p.mkdir = "none" THEN [f EXCEPT !.dir = TRUE] ELSE f

\* the error number of the >> redirection's open, "none" when it succeeds
redirect_error(f, p) ==
    IF ~p.search THEN "EACCES" ELSE IF ~f.dir THEN "ENOENT" ELSE p.open

\* the message the shell has for an error number
strerror(errno) ==
    CASE errno = "EACCES" -> "Permission denied"
      [] errno = "ENOENT" -> "No such file or directory"
      [] errno = "EROFS" -> "Read-only file system"
      [] errno = "ENOSPC" -> "No space left on device"
      [] OTHER -> ""

\* the shell's own report of a failed >> redirection; it is printed before the
\* 2>/dev/null that follows the redirection takes effect.  where is the place
\* the shell names: the script (or "environment") and the line of the command.
ShellDiag(where, path, errno) == PrintChunk(where \o ": " \o path \o ": " \o strerror(errno))

\* log_action component action message, called at time t by a shell that
\* names its place where
log_action(f, p, e, t, where, component, action, messageArg) ==
    LET message == ShellParam(messageArg)
        line == "[" \o date_fmt(t) \o "] [" \o action \o "] " \o message
        name == log_file_case(component)
        f1 == mkdir_p(f, p)
        errno == redirect_error(f1, p)
        opened == [f1 EXCEPT !.present = @ \cup {name}] IN
    CASE errno # "none" ->
            Outcome(f1, e \o << ShellDiag(where, PathOf(name), errno), PrintChunk(line) >>,
                    "0", "none")
      [] errno = "none" /\ p.write # "none" ->
            \* echo's own complaint goes to /dev/null; the fallback echo prints the line
            Outcome(opened, Append(e, PrintChunk(line)), "0", "none")
      [] OTHER ->
            Outcome([opened EXCEPT !.files[name] = Append(@, PrintChunk(line))],
                    e, "0", "none")

----------------------------------------------------------------------------
(* Inputs *)

Components == {"appvm", "qemu-hook", "guest-init", "vm-manager"}
Actions == {"PREPARE"}
Commands == {None, Some(""), Some("ls -l")}
Messages == {None, Some(""), Some("starting VM boot")}
CmdLists == { <<>>,
              << [s |-> "echo"], [s |-> "hello"], [s |-> "world"] >>,
              << [s |-> "sleep"], [n |-> 10] >> }
ShellPlaces == {"environment: line 19", "/etc/libvirt/hooks/qemu: line 19"}
Times == { [year |-> 2024, month |-> 1, day |-> 5, hour |-> 9, minute |-> 3, second |-> 7],
           [year |-> 2025, month |-> 12, day |-> 30, hour |-> 23, minute |-> 59, second |-> 58] }

\* the clock one second later (the sample dates stay clear of the end of a month)
Tick(t) ==
    IF t.second < 59 THEN [t EXCEPT !.second = @ + 1]
    ELSE IF t.minute < 59 THEN [t EXCEPT !.second = 0, !.minute = @ + 1]
    ELSE IF t.hour < 23 THEN [t EXCEPT !.second = 0, !.minute = 0, !.hour = @ + 1]
    ELSE [t EXCEPT !.second = 0, !.minute = 0, !.hour = 0, !.day = @ + 1]

NoTime == [year |-> 0, month |-> 0, day |-> 0, hour |-> 0, minute |-> 0, second |-> 0]

Procs == 1 .. NumProcs

----------------------------------------------------------------------------
(* Sequential specification: one call at a time *)

NoCall ==
    [op |-> "none", component |-> "", action |-> "", command |-> None, message |-> None,
     cmd |-> <<>>, now |-> NoTime, pre |-> [dir |-> FALSE, present |-> {},
                                           files |-> [n \in LogFileNames |-> <<>>]],
     preErr |-> <<>>, ret |-> "None", exc |-> "none",
     prevOp |-> "none", prevRet |-> "None", prevExc |-> "none"]

\* where /var/log may not be searched every access below it is refused; the
\* write is reached only through a successful open
Environments ==
    { p \in [search : BOOLEAN, mkdir : Faults, open : Faults, write : WriteFaults] :
        /\ ~p.search => p.mkdir = "EACCES" /\ p.open = "EACCES"
        /\ p.write # "none" => p.search /\ p.open = "none" }

NoReq == [op |-> "none", component |-> "", entry |-> "", where |-> "", pending |-> <<>>,
          ret |-> "None", exc |-> "none"]

InitFs ==
    /\ fs \in [dir : BOOLEAN, present : {{}}, files : {[n \in LogFileNames |-> <<>>]}]
    /\ perm \in Environments
    \* no mkdir of an existing LOG_DIR consults the error it would meet otherwise
    /\ fs.dir => perm.mkdir = (IF perm.search THEN "none" ELSE "EACCES")
    /\ stderr = <<>>
    /\ clock \in Times

Init ==
    /\ InitFs
    /\ last = NoCall
    /\ calls = 0
    /\ pc = [p \in Procs |-> "idle"]
    /\ req = [p \in Procs |-> NoReq]
    /\ dir0 = fs.dir

\* the state after a call that produced outcome o
Finish(o, call) ==
    /\ fs' = o.fs
    /\ stderr' = o.stderr
    /\ clock' = Tick(clock)
    /\ last' = [call EXCEPT !.now = clock, !.pre = fs, !.preErr = stderr,
                            !.ret = o.ret, !.exc = o.exc,
                            !.prevOp = last.op, !.prevRet = last.ret, !.prevExc = last.exc]
    /\ calls' = calls + 1
    /\ UNCHANGED <<perm, pc, req, dir0>>

EnsureLogDir ==
    /\ calls < MaxCalls
    /\ Finish(ensure_log_dir(fs, perm, stderr), [NoCall EXCEPT !.op = "ensure_log_dir"])

Log ==
    /\ calls < MaxCalls
    /\ \E c \in Components, a \in Actions, k \in Commands, m \in Messages :
          Finish(log(fs, perm, stderr, clock, c, a, k, m),
                 [NoCall EXCEPT !.op = "log", !.component = c, !.action = a,
                                !.command = k, !.message = m])

LogCommand ==
    /\ calls < MaxCalls
    /\ \E c \in Components, a \in Actions, l \in CmdLists :
          Finish(log_command(fs, perm, stderr, clock, c, a, l),
                 [NoCall EXCEPT !.op = "log_command", !.component = c,
                                !.action = a, !.cmd = l])

LogAction ==
    /\ calls < MaxCalls
    /\ \E w \in ShellPlaces, c \in Components, a \in Actions, m \in Messages :
          Finish(log_action(fs, perm, stderr, clock, w, c, a, m),
                 [NoCall EXCEPT !.op = "log_action", !.component = c,
                                !.action = a, !.message = m])

Next == EnsureLogDir \/ Log \/ LogCommand \/ LogAction

Spec == Init /\ [][Next]_vars

----------------------------------------------------------------------------
(* Concurrent specification: NumProcs processes, each inside one call of   *)
(* ensure_log_dir(), log(), log_command() or the shell's log_action; a     *)
(* step is one system call of one process (stat, mkdir, open, a write to   *)
(* the file, a write to standard error).                                   *)

ConcComponents == {"qemu-hook", "vm-manager"}
ConcMessages == {Some("starting VM boot")}
ConcCmdLists == { << [s |-> "sleep"], [n |-> 10] >> }
ConcShellPlaces == {"environment: line 19"}

\* process p moves to pc value to with its request changed to r
Goto(p, to, r) ==
    /\ pc' = [pc EXCEPT ![p] = to]
    /\ req' = [req EXCEPT ![p] = r]

\* process p is left with exception exc
Raise(p, exc) == Goto(p, "raised", [req[p] EXCEPT !.exc = exc])

\* process p returns ret
Return(p, ret) == Goto(p, "done", [req[p] EXCEPT !.ret = ret])

\* process p goes on to write chunks to standard error and then returns ret
PrintThenReturn(p, chunks, ret) ==
    Goto(p, "print", [req[p] EXCEPT !.pending = chunks, !.ret = ret])

\* the clock as a call leaves it: the next call may read the same second or
\* the next
Passes == clock' \in {clock, Tick(clock)}

\* ensure_log_dir() is entered
CallEnsure(p) ==
    /\ pc[p] = "idle"
    /\ Goto(p, "exists", [NoReq EXCEPT !.op = "ensure_log_dir"])
    /\ Passes
    /\ UNCHANGED <<fs, perm, stderr, last, calls, dir0>>

\* log() is entered: the timestamp is read and the entry built
CallLog(p) ==
    /\ pc[p] = "idle"
    /\ \E c \in ConcComponents, a \in Actions, m \in ConcMessages :
          Goto(p, "exists", [NoReq EXCEPT !.op = "log", !.component = c,
                                          !.entry = log_entry(strftime(clock), a, None, m)])
    /\ Passes
    /\ UNCHANGED <<fs, perm, stderr, last, calls, dir0>>

\* log_command() is entered and calls log() with the joined command
CallLogCommand(p) ==
    /\ pc[p] = "idle"
    /\ \E c \in ConcComponents, a \in Actions, l \in ConcCmdLists :
          Goto(p, "exists",
               [NoReq EXCEPT !.op = "log_command", !.component = c,
                             !.entry = log_entry(strftime(clock), a,
                                                 Some(command_str(l)), None)])
    /\ Passes
    /\ UNCHANGED <<fs, perm, stderr, last, calls, dir0>>

\* ensure_log_dir(): LOG_DIR.exists()
Exists(p) ==
    /\ pc[p] = "exists"
    /\ LET x == exists(fs.dir, perm) IN
       CASE x = "False" -> Goto(p, "mkdir", req[p])
         [] x = "True" -> IF req[p].op = "ensure_log_dir" THEN Return(p, "True")
                          ELSE Goto(p, "open", req[p])
         [] OTHER -> Raise(p, x)
    /\ UNCHANGED <<fs, perm, stderr, clock, last, calls, dir0>>

\* ensure_log_dir(): LOG_DIR.mkdir(...); on PermissionError the warning is
\* printed and, in log(), the entry after it
Mkdir(p) ==
    /\ pc[p] = "mkdir"
    /\ LET r == mkdir(fs.dir, perm) IN
       /\ fs' = IF r = "none" THEN [fs EXCEPT !.dir = TRUE] ELSE fs
       /\ CASE r = "none" -> IF req[p].op = "ensure_log_dir" THEN Return(p, "True")
                             ELSE Goto(p, "open", req[p])
            [] r = "PermissionError" ->
                  IF req[p].op = "ensure_log_dir"
                  THEN PrintThenReturn(p, PyPrint(WarnCreate), "False")
                  ELSE PrintThenReturn(p, PyPrint(WarnCreate) \o PyPrint(req[p].entry),
                                       "None")
            [] OTHER -> Raise(p, r)
    /\ UNCHANGED <<perm, stderr, clock, last, calls, dir0>>

\* log(): open(log_file, "a"), which creates the file; on PermissionError the
\* warning and the entry are printed
Open(p) ==
    /\ pc[p] = "open"
    /\ LET name == LOG_FILES_get(req[p].component)
           r == open_append(perm) IN
       /\ fs' = IF r = "none" THEN [fs EXCEPT !.present = @ \cup {name}] ELSE fs
       /\ CASE r = "none" -> Goto(p, "write", req[p])
            [] r = "PermissionError" ->
                  PrintThenReturn(p, PyPrint(WarnWrite(name)) \o PyPrint(req[p].entry),
                                  "None")
            [] OTHER -> Raise(p, r)
    /\ UNCHANGED <<perm, stderr, clock, last, calls, dir0>>

\* log(): the write of the entry when the with block closes the file
Write(p) ==
    /\ pc[p] = "write"
    /\ LET name == LOG_FILES_get(req[p].component)
           w == write_flush(perm) IN
       /\ fs' = IF w = "none" THEN [fs EXCEPT !.files[name] = Append(@, req[p].entry)]
                ELSE fs
       /\ IF w = "none" THEN Return(p, "None") ELSE Raise(p, w)
    /\ UNCHANGED <<perm, stderr, clock, last, calls, dir0>>

\* one write to standard error of a print or an echo in progress
StderrWrite(p) ==
    /\ pc[p] = "print"
    /\ stderr' = Append(stderr, Head(req[p].pending))
    /\ Goto(p, IF Len(req[p].pending) = 1 THEN "done" ELSE "print",
            [req[p] EXCEPT !.pending = Tail(@)])
    /\ UNCHANGED <<fs, perm, clock, last, calls, dir0>>

\* log_action is entered: date is run and the line built
ShCall(p) ==
    /\ pc[p] = "idle"
    /\ \E w \in ConcShellPlaces, c \in ConcComponents, a \in Actions, m \in ConcMessages :
          Goto(p, "sh_mkdir",
               [NoReq EXCEPT !.op = "log_action", !.component = c, !.where = w,
                             !.ret = "0",
                             !.entry = PrintChunk("[" \o date_fmt(clock) \o "] [" \o a
                                                      \o "] " \o ShellParam(m))])
    /\ Passes
    /\ UNCHANGED <<fs, perm, stderr, last, calls, dir0>>

\* log_action: mkdir -p "$log_dir" 2>/dev/null || true
ShMkdir(p) ==
    /\ pc[p] = "sh_mkdir"
    /\ fs' = mkdir_p(fs, perm)
    /\ Goto(p, "sh_open", req[p])
    /\ UNCHANGED <<perm, stderr, clock, last, calls, dir0>>

\* log_action: the open of the >> redirection; when it fails the shell
\* reports it and the fallback echo prints the line
ShOpen(p) ==
    /\ pc[p] = "sh_open"
    /\ LET name == log_file_case(req[p].component)
           errno == redirect_error(fs, perm) IN
       /\ fs' = IF errno = "none" THEN [fs EXCEPT !.present = @ \cup {name}] ELSE fs
       /\ IF errno = "none" THEN Goto(p, "sh_write", req[p])
          ELSE PrintThenReturn(p, << ShellDiag(req[p].where, PathOf(name), errno),
                                     req[p].entry >>, "0")
    /\ UNCHANGED <<perm, stderr, clock, last, calls, dir0>>

\* log_action: echo's write to the file; when it fails the fallback echo
\* prints the line
ShWrite(p) ==
    /\ pc[p] = "sh_write"
    /\ LET name == log_file_case(req[p].component) IN
       /\ fs' = IF perm.write = "none"
                THEN [fs EXCEPT !.files[name] = Append(@, req[p].entry)] ELSE fs
       /\ IF perm.write = "none" THEN Return(p, "0")
          ELSE PrintThenReturn(p, << req[p].entry >>, "0")
    /\ UNCHANGED <<perm, stderr, clock, last, calls, dir0>>

NextConc ==
    \E p \in Procs :
        \/ CallEnsure(p) \/ CallLog(p) \/ CallLogCommand(p)
        \/ Exists(p) \/ Mkdir(p) \/ Open(p) \/ Write(p) \/ StderrWrite(p)
        \/ ShCall(p) \/ ShMkdir(p) \/ ShOpen(p) \/ ShWrite(p)

SpecConc == Init /\ [][NextConc]_vars

----------------------------------------------------------------------------
(* Vocabulary of the properties *)

\* the file the specification assigns to a component
ConfiguredFile(component) ==
    IF component = "appvm" THEN "appvm.log"
    ELSE IF component = "qemu-hook" THEN "qemu-hook.log"
    ELSE IF component = "guest-init" THEN "guest-init.log"
    ELSE "appvm.log"

\* the last call was the Python log(), and it returned
LogReturned == last.op = "log" /\ last.exc = "none"

\* the last call left every log file and the directory as they were
FsUntouched == fs = last.pre

\* the last call appended exactly the chunk line to file n and touched no other file
AppendedTo(n, line) ==
    /\ fs.dir
    /\ n \in fs.present
    /\ fs.files[n] = Append(last.pre.files[n], line)
    /\ \A m \in LogFileNames \ {n} :
          fs.files[m] = last.pre.files[m] /\ (m \in fs.present <=> m \in last.pre.present)

\* the last call printed exactly these chunks to standard error
Printed(chunks) == stderr = last.preErr \o chunks

\* the last call emitted line: appended to a log file, or printed last to standard error
Emitted(line) ==
    \/ \E n \in LogFileNames : AppendedTo(n, line)
    \/ /\ Len(stderr) >= Len(last.preErr) + 2
       /\ SubSeq(stderr, Len(stderr) - 1, Len(stderr)) = <<line, "\n">>

\* the entry log() builds for the last call, as the code formats it
LastEntry == log_entry(strftime(last.now), last.action, last.command, last.message)

\* storage as the last call found it
DirCreatable == perm.search /\ (last.pre.dir \/ perm.mkdir = "none")
Writable == DirCreatable /\ perm.open = "none" /\ perm.write = "none"

\* creating LOG_DIR / opening a log file is refused for lack of permission
CreateDenied == ~perm.search \/ perm.mkdir = "EACCES"
OpenDenied == ~perm.search \/ perm.open = "EACCES"

----------------------------------------------------------------------------
(* C1: line format *)

\* the line of the last call with the segments chosen by "was supplied"
LineIfSupplied ==
    "[" \o strftime(last.now) \o "] [" \o last.action \o "]"
        \o (IF last.command # None THEN " command: " \o last.command[1] ELSE "")
        \o (IF last.message # None THEN " " \o last.message[1] ELSE "")
        \o "\n"

\* the line of the last call with the segments chosen by "was supplied and is not empty"
LineIfNonEmpty ==
    "[" \o strftime(last.now) \o "] [" \o last.action \o "]"
        \o (IF last.command # None /\ last.command # Some("")
            THEN " command: " \o last.command[1] ELSE "")
        \o (IF last.message # None /\ last.message # Some("")
            THEN " " \o last.message[1] ELSE "")
        \o "\n"

\* C1 as stated: every log() call emits '[<timestamp>] [<action>]', then
\* ' command: <command>' iff a command was supplied, then a space and the
\* message iff a message was supplied, then one newline.
C1_LineFormatAsSupplied == LogReturned => Emitted(LineIfSupplied)

\* C1 amended: the command segment appears iff a non-empty command was
\* supplied and the message segment iff a non-empty message was supplied; an
\* empty string is treated as absent.
C1_LineFormatNonEmpty == LogReturned => Emitted(LineIfNonEmpty)

C1_Witness ==
    /\ LogReturned
    /\ last.command = Some("")
    /\ last.message = Some("starting VM boot")
    /\ last.component = "qemu-hook"
    /\ AppendedTo("qemu-hook.log", "[2024-01-05 09:03:07] [PREPARE] starting VM boot\n")

----------------------------------------------------------------------------
(* C2: file selection *)

\* C2: log() selects the configured file for 'appvm', 'qemu-hook' and
\* 'guest-init' and appvm.log for every other component name, and the lookup
\* never fails: on writable storage the call returns and the entry is in that
\* file, on a denied open the warning names that file, and no other file is
\* ever touched.
C2_LookupTotal ==
    last.op = "log" =>
        LET n == ConfiguredFile(last.component) IN
        /\ \A m \in LogFileNames \ {n} : fs.files[m] = last.pre.files[m]
        /\ Writable => last.exc = "none" /\ AppendedTo(n, LastEntry)
        /\ (DirCreatable /\ perm.open = "EACCES") =>
              /\ last.exc = "none"
              /\ Len(stderr) >= Len(last.preErr) + 4
              /\ stderr[Len(stderr) - 3] = "Warning: Cannot write to /var/log/kvm-appvm/" \o n

C2_Witness ==
    /\ last.op = "log"
    /\ last.component = "vm-manager"
    /\ last.exc = "none"
    /\ Len(fs.files["appvm.log"]) = Len(last.pre.files["appvm.log"]) + 1

----------------------------------------------------------------------------
(* C3, C4: the two recovered permission failures *)

\* C3 as stated: when LOG_DIR does not exist and creating it is denied for
\* lack of permission, log() prints the formatted entry to standard error
\* (after what was there before), writes and creates no file, and returns
\* without raising.
C3_DirDeniedFallsBackToStderr ==
    (last.op = "log" /\ ~last.pre.dir /\ CreateDenied) =>
        /\ last.exc = "none"
        /\ FsUntouched
        /\ Len(stderr) >= Len(last.preErr) + 2
        /\ SubSeq(stderr, 1, Len(last.preErr)) = last.preErr
        /\ SubSeq(stderr, Len(stderr) - 1, Len(stderr)) = <<LastEntry, "\n">>

\* C4 as stated: when LOG_DIR exists and the open for append is denied for
\* lack of permission, log() prints first a warning naming the file and then
\* the formatted entry to standard error, leaves every file as it was, and
\* returns without raising.
C4_FileDeniedWarnsThenLine ==
    (last.op = "log" /\ last.pre.dir /\ OpenDenied) =>
        /\ last.exc = "none"
        /\ FsUntouched
        /\ Printed(<< "Warning: Cannot write to /var/log/kvm-appvm/"
                          \o ConfiguredFile(last.component), "\n",
                      LastEntry, "\n" >>)

----------------------------------------------------------------------------
(* C5: frame of a successful write *)

\* C5: on writable storage a log() call appends exactly its entry to the end
\* of the file of its component, the earlier contents staying as a prefix,
\* changes no other file and prints nothing to standard error.
C5_AppendsOneLineOnly ==
    (last.op = "log" /\ Writable) =>
        /\ last.exc = "none"
        /\ AppendedTo(ConfiguredFile(last.component), LastEntry)
        /\ Printed(<<>>)

C5_Witness ==
    /\ last.op = "log"
    /\ Writable
    /\ last.component = "qemu-hook"
    /\ last.pre.files["qemu-hook.log"] # <<>>
    /\ Len(fs.files["qemu-hook.log"]) = 2
    /\ fs.files["qemu-hook.log"][2] = "[2024-01-05 09:03:08] [PREPARE] starting VM boot\n"

----------------------------------------------------------------------------
(* C6: idempotence of ensure_log_dir *)

\* C6: when permissions allow, two ensure_log_dir() calls in succession both
\* return True, the directory exists afterwards, and the second call changes
\* nothing (so the directory is created at most once).
C6_EnsureIdempotent ==
    (last.op = "ensure_log_dir" /\ last.prevOp = "ensure_log_dir" /\ DirCreatable) =>
        /\ last.prevRet = "True" /\ last.prevExc = "none"
        /\ last.ret = "True" /\ last.exc = "none"
        /\ last.pre.dir
        /\ fs.dir
        /\ FsUntouched
        /\ Printed(<<>>)

C6_Witness ==
    /\ last.op = "ensure_log_dir"
    /\ last.prevOp = "ensure_log_dir"
    /\ ~dir0
    /\ fs.dir
    /\ last.ret = "True"

----------------------------------------------------------------------------
(* C7: log_command against log *)

\* the textual forms of the elements of l joined by single spaces
RECURSIVE JoinedBySpaces(_)
JoinedBySpaces(l) ==
    IF l = <<>> THEN ""
    ELSE IF Len(l) = 1 THEN str(l[1])
    ELSE JoinedBySpaces(SubSeq(l, 1, Len(l) - 1)) \o " " \o str(l[Len(l)])

\* C7: log_command(component, action, list) leaves the files, standard error
\* and the exception exactly as log(component, action, command=s) would from
\* the same state at the same time, s being the elements' textual forms
\* joined by single spaces.
C7_LogCommandIsLog ==
    last.op = "log_command" =>
        LET o == log(last.pre, perm, last.preErr, last.now, last.component, last.action,
                     Some(JoinedBySpaces(last.cmd)), None) IN
        /\ fs = o.fs
        /\ stderr = o.stderr
        /\ last.exc = o.exc

C7_Witness ==
    /\ last.op = "log_command"
    /\ last.cmd = << [s |-> "sleep"], [n |-> 10] >>
    /\ last.component = "appvm"
    /\ AppendedTo("appvm.log", "[2024-01-05 09:03:07] [PREPARE] command: sleep 10\n")

----------------------------------------------------------------------------
(* C8: the shell function against log *)

\* C8 as stated: log_action(component, action, message) leaves the files and
\* standard error exactly as log(component, action, message=message) would
\* from the same state at the same time, under every filesystem condition.
C8_ShellMatchesLog ==
    last.op = "log_action" =>
        LET o == log(last.pre, perm, last.preErr, last.now, last.component, last.action,
                     None, last.message) IN
        /\ fs = o.fs
        /\ stderr = o.stderr
        /\ o.exc = "none"

----------------------------------------------------------------------------
(* C9: other failures propagate *)

\* the last call is one of the Python functions
PythonCall == last.op \in {"ensure_log_dir", "log", "log_command"}

\* the last call met a filesystem error that is not a permission denial
HitOtherError ==
    /\ perm.search
    /\ \/ ~last.pre.dir /\ perm.mkdir = "EROFS"
       \/ /\ last.op # "ensure_log_dir"
          /\ DirCreatable
          /\ perm.open = "EROFS" \/ (perm.open = "none" /\ perm.write = "ENOSPC")

\* C9: a failure of the directory creation, the open or the write that is not
\* a permission denial leaves ensure_log_dir() and log() with an exception
\* and prints nothing to standard error; where /var/log may be searched, a
\* call that meets no such failure returns.
C9_OtherErrorsPropagate ==
    PythonCall =>
        /\ HitOtherError => last.exc = "OSError" /\ Printed(<<>>)
        /\ (perm.search /\ ~HitOtherError) => last.exc = "none"

C9_Witness ==
    /\ last.op = "log"
    /\ last.pre.dir
    /\ perm.write = "ENOSPC"
    /\ last.exc = "OSError"
    /\ last.component = "qemu-hook"
    /\ fs.present = {"qemu-hook.log"}
    /\ fs.files["qemu-hook.log"] = <<>>
    /\ stderr = <<>>
    /\ calls = 2

----------------------------------------------------------------------------
(* C10: concurrent callers *)

\* C10 as stated: when LOG_DIR is absent at the start and may be created (and
\* the files may be opened and written) and the callers all call log(), no
\* caller is left with an exception, and the entry of every finished call is
\* in its file.
C10_NoCallerAborted ==
    (/\ ~dir0 /\ perm.search /\ perm.mkdir = "none" /\ perm.open = "none"
     /\ perm.write = "none"
     /\ \A q \in Procs : req[q].op \in {"none", "log"}) =>
        \A p \in Procs :
            /\ pc[p] # "raised"
            /\ pc[p] = "done" =>
                  \E i \in DOMAIN fs.files[ConfiguredFile(req[p].component)] :
                      fs.files[ConfiguredFile(req[p].component)][i] = req[p].entry

====
